---------------------------- MODULE Spec2Model ----------------------------
(***************************************************************************)
(* A model of pycave's output heads (src/pycave/bayes/output.py) and of    *)
(* the Markov chain estimator (src/pycave/bayes/markov_chain/estimator.py).*)
(*                                                                         *)
(* Tensors live in a heap (address -> value) so that the aliasing created  *)
(* by in-place operators (`+=`, `set_`) is part of the state.  Floating    *)
(* point numbers are exact non-negative rationals <<n, d>> in lowest terms,*)
(* extended with the two IEEE results of a division by zero: NaN = <<0,0>> *)
(* and +Inf = <<1,0>>.  Rounding is not modelled.                          *)
(***************************************************************************)
EXTENDS Integers, Sequences, FiniteSets, TLC

(***************************************************************************)
(* Sizes.  NumStates is the num_states the head is constructed with; the   *)
(* number of output symbols is chosen at construction (variable            *)
(* numOutputs) among OutputSizes.                                          *)
(***************************************************************************)
NumStates == 2
MaxBatch == 1
MaxSteps == 3

States == 0 .. (NumStates - 1)
OutputSizes == {NumStates, NumStates + 1}
Symbols(V) == 0 .. (V - 1)
\* responsibilities, scaled to small non-negative integers
Weights == {0, 1}
\* the responsibilities of one observation: some state has a share of it
Gammas == {g \in [States -> Weights] : \E k \in States : g[k] > 0}
\* observations of the one-feature Gaussian head
Samples == {0, 1}
CovarianceModes == {"diag", "spherical", "diag-shared"}

VARIABLES
    head,           \* "Discrete" | "Gaussian": the variant under the driver
    numOutputs,     \* Discrete: V, the second dimension of the table
    mats,           \* heap of 2-D tensors: address -> [States -> [Symbols -> number]]
    vecs,           \* heap of 1-D tensors: address -> [States -> number]
    probabilities,  \* Discrete: address (in mats) of the parameter's storage
    covariance,     \* Gaussian: the covariance mode
    means,          \* Gaussian: [States -> number]
    covars,         \* Gaussian: per mode, [States -> number] or <<number>>
    local,          \* the driver's record returned by the last maximize
    merged,         \* the driver's folded record (None before the first update)
    out,            \* what the last evaluate / sample returned
    last,           \* the last call: its name, its arguments, the error it raised
    applied,        \* the record the last successful apply committed from
    steps,          \* number of driver calls made
    \* the three-record merge experiment
    given,          \* the heap as the three maximize calls left it
    results,        \* expression -> the record it returned, by value
    \* the Markov chain estimator
    est,            \* the constructor's arguments
    seqData,        \* the sequences the last call was given
    model_,         \* the fitted model
    counts,         \* the accumulator of the last fit, after the fold
    mcLast          \* the last call: its name, the batch size it used, its error

headVars == <<head, numOutputs, mats, vecs, probabilities, covariance, means,
              covars, local, merged, out, last, applied, steps>>
assocVars == <<given, results>>
mcVars == <<est, seqData, model_, counts, mcLast>>
vars == <<headVars, assocVars, mcVars>>

-----------------------------------------------------------------------------
(* Numbers *)

RECURSIVE GCD(_, _)
GCD(a, b) == IF b = 0 THEN a ELSE GCD(b, a % b)

NaN == <<0, 0>>
Inf == <<1, 0>>

Rat(n, d) ==
    IF d = 0 THEN (IF n = 0 THEN NaN ELSE Inf)
    ELSE LET g == GCD(n, d) IN <<n \div g, d \div g>>

Num(n) == <<n, 1>>
IsFinite(x) == x[2] # 0

\* IEEE addition of non-negative values
RAdd(a, b) ==
    IF a = NaN \/ b = NaN THEN NaN
    ELSE IF ~IsFinite(a) \/ ~IsFinite(b) THEN Inf
    ELSE Rat(a[1] * b[2] + b[1] * a[2], a[2] * b[2])

\* IEEE division of non-negative values: x/0 = Inf, 0/0 = NaN, x/Inf = 0
RDiv(a, b) == Rat(a[1] * b[2], a[2] * b[1])

RMul(a, b) ==
    IF a = NaN \/ b = NaN THEN NaN
    ELSE IF ~IsFinite(a) \/ ~IsFinite(b)
         THEN (IF a = Num(0) \/ b = Num(0) THEN NaN ELSE Inf)
    ELSE Rat(a[1] * b[1], a[2] * b[2])

\* a - b for finite a >= b
RSub(a, b) == Rat(a[1] * b[2] - b[1] * a[2], a[2] * b[2])

RECURSIVE RSum(_, _)
RSum(f, S) ==
    IF S = {} THEN Num(0)
    ELSE LET x == CHOOSE y \in S : TRUE IN RAdd(f[x], RSum(f, S \ {x}))

RECURSIVE ISum(_, _)
ISum(f, S) ==
    IF S = {} THEN 0
    ELSE LET x == CHOOSE y \in S : TRUE IN f[x] + ISum(f, S \ {x})

-----------------------------------------------------------------------------
(* The heap *)

NewAddr(h) == CHOOSE a \in 1 .. (Cardinality(DOMAIN h) + 1) :
                  /\ a \notin DOMAIN h
                  /\ \A b \in 1 .. (a - 1) : b \in DOMAIN h

Store(h, a, v) == [x \in DOMAIN h \cup {a} |-> IF x = a THEN v ELSE h[x]]

\* reference counting: a tensor nothing refers to is freed
Keep(h, roots) == [x \in DOMAIN h \cap roots |-> h[x]]

NoneRec == [none |-> TRUE, num |-> 0, denom |-> 0]
Rec(n, d) == [none |-> FALSE, num |-> n, denom |-> d]

MatRoots(recs) == {r.num : r \in {x \in recs : ~x.none}}
VecRoots(recs) == {r.denom : r \in {x \in recs : ~x.none}}

-----------------------------------------------------------------------------
(* Discrete: the pure parts *)

MAdd(a, b) == [k \in DOMAIN a |-> [v \in DOMAIN a[k] |-> RAdd(a[k][v], b[k][v])]]
VAdd(a, b) == [k \in DOMAIN a |-> RAdd(a[k], b[k])]

\* reset_parameters: uniform_() then a division of each row by its sum.  Any
\* row-stochastic table with positive entries can come out; two rows stand
\* for them, the flat one and a ramp.
ResetRows(V) ==
    { [v \in Symbols(V) |-> Rat(1, V)],
      [v \in Symbols(V) |-> Rat(2 * (v + 1), V * (V + 1))] }
ResetTables(V) == {[k \in States |-> row] : row \in ResetRows(V)}

\* a batch: N symbols and, per symbol, one responsibility per state
Batches(V) ==
    UNION { [1 .. n -> Symbols(V)] \X [1 .. n -> Gammas] :
            n \in 1 .. MaxBatch }

\* maximize: num = zeros_like(probabilities); num.scatter_add_(1, sequences_, gamma_)
MaximizeNum(V, sequences, gamma) ==
    [k \in States |-> [v \in Symbols(V) |->
        Num(ISum([i \in DOMAIN sequences |->
                     IF sequences[i] = v THEN gamma[i][k] ELSE 0],
                 DOMAIN sequences))]]

\* maximize: denom = gamma.sum(0)
MaximizeDenom(gamma) ==
    [k \in States |-> Num(ISum([i \in DOMAIN gamma |-> gamma[i][k]], DOMAIN gamma))]

\* update: `num += previous['num']` writes into the tensor current['num'] names
UpdateMats(m, current, previous) ==
    IF previous.none THEN m
    ELSE [m EXCEPT ![current.num] = MAdd(m[current.num], m[previous.num])]

UpdateVecs(w, current, previous) ==
    IF previous.none THEN w
    ELSE [w EXCEPT ![current.denom] = VAdd(w[current.denom], w[previous.denom])]

\* update: the returned dict names the tensors of current
UpdateResult(current) == Rec(current.num, current.denom)

\* apply: update['num'] / update['denom'] divides a [K, V] tensor by a [K]
\* tensor.  Broadcasting aligns the trailing dimensions, so the [K] tensor is
\* laid along the V axis: the shapes must agree there (or K = 1), and entry
\* [k][v] is divided by denom[v].
Broadcastable(V) == NumStates = V \/ NumStates = 1

Quotient(V, num, denom) ==
    [k \in States |-> [v \in Symbols(V) |->
        RDiv(num[k][v], denom[IF NumStates = 1 THEN 0 ELSE v])]]

\* normalize (pycave.bayes.utils): division by the sum over the last axis, an
\* all-zero row left as it is
normalize(row) ==
    LET s == RSum(row, DOMAIN row)
    IN  IF s = Num(0) THEN row ELSE [k \in DOMAIN row |-> RDiv(row[k], s)]

\* evaluate: probabilities.t()[data] is a copy (advanced indexing), normalized
EvaluateOut(table, data) ==
    [i \in DOMAIN data |-> normalize([k \in States |-> table[k][data[i]]])]

Call(op, cur, prev, err) == [op |-> op, cur |-> cur, prev |-> prev, err |-> err]

\* a record whose tensors were freed is no longer the applied one
StillLive(r, m) == IF ~r.none /\ r.num \in DOMAIN m THEN r ELSE NoneRec

Ref(name) == IF name = "local" THEN local
             ELSE IF name = "merged" THEN merged ELSE NoneRec

-----------------------------------------------------------------------------
(* Discrete: the operations, called by a driver that holds `local` and `merged` *)

Discrete_reset_parameters ==
    /\ head = "Discrete"
    /\ steps < MaxSteps
    /\ \E t \in ResetTables(numOutputs) :
          mats' = [mats EXCEPT ![probabilities] = t]
    /\ last' = Call("reset_parameters", "", "", "")
    /\ applied' = applied
    /\ steps' = steps + 1
    /\ UNCHANGED <<assocVars, mcVars>>
    /\ UNCHANGED <<head, numOutputs, vecs, probabilities, covariance, means,
                   covars, local, merged>>
    /\ out' = <<>>

Discrete_evaluate ==
    /\ head = "Discrete"
    /\ steps < MaxSteps
    /\ \E data \in [1 .. 1 -> Symbols(numOutputs)] :
          out' = EvaluateOut(mats[probabilities], data)
    /\ last' = Call("evaluate", "", "", "")
    /\ applied' = applied
    /\ steps' = steps + 1
    /\ UNCHANGED <<assocVars, mcVars>>
    /\ UNCHANGED <<head, numOutputs, mats, vecs, probabilities, covariance,
                   means, covars, local, merged>>

\* sample: Categorical(probabilities[states]).sample(); the constructor
\* rejects a row that is not a finite, non-zero weight vector
Discrete_sample ==
    /\ head = "Discrete"
    /\ steps < MaxSteps
    /\ \E k \in States :
          LET row == mats[probabilities][k]
              valid == /\ \A v \in DOMAIN row : IsFinite(row[v])
                       /\ \E v \in DOMAIN row : row[v] # Num(0)
          IN  IF valid
              THEN /\ \E v \in DOMAIN row : row[v] # Num(0) /\ out' = <<v>>
                   /\ last' = Call("sample", "", "", "")
              ELSE /\ out' = <<>>
                   /\ last' = Call("sample", "", "", "ValueError")
    /\ applied' = applied
    /\ steps' = steps + 1
    /\ UNCHANGED <<assocVars, mcVars>>
    /\ UNCHANGED <<head, numOutputs, mats, vecs, probabilities, covariance,
                   means, covars, local, merged>>

\* local = maximize(sequences, gamma)
Discrete_maximize ==
    /\ head = "Discrete"
    /\ steps < MaxSteps
    /\ \E b \in Batches(numOutputs) :
          LET n == NewAddr(mats)
              d == NewAddr(vecs)
              r == Rec(n, d)
          IN  /\ local' = r
              /\ mats' = Keep(Store(mats, n, MaximizeNum(numOutputs, b[1], b[2])),
                              {probabilities} \cup MatRoots({r, merged}))
              /\ vecs' = Keep(Store(vecs, d, MaximizeDenom(b[2])),
                              VecRoots({r, merged}))
    /\ last' = Call("maximize", "", "", "")
    /\ applied' = StillLive(applied, mats')
    /\ steps' = steps + 1
    /\ UNCHANGED <<assocVars, mcVars>>
    /\ UNCHANGED <<head, numOutputs, probabilities, covariance, means, covars,
                   merged>>
    /\ out' = <<>>

\* merged = update(current, previous), current and previous among the
\* driver's records, previous possibly None
Discrete_update(cur, prev) ==
    /\ head = "Discrete"
    /\ steps < MaxSteps
    /\ ~Ref(cur).none
    /\ LET r == UpdateResult(Ref(cur))
       IN  /\ merged' = r
           /\ mats' = Keep(UpdateMats(mats, Ref(cur), Ref(prev)),
                           {probabilities} \cup MatRoots({local, r}))
           /\ vecs' = Keep(UpdateVecs(vecs, Ref(cur), Ref(prev)),
                           VecRoots({local, r}))
    /\ last' = Call("update", cur, prev, "")
    /\ applied' = StillLive(applied, mats')
    /\ steps' = steps + 1
    /\ UNCHANGED <<assocVars, mcVars>>
    /\ UNCHANGED <<head, numOutputs, probabilities, covariance, means, covars,
                   local>>
    /\ out' = <<>>

\* A variant of apply that divides in the record's own tensor and hands that
\* tensor to the parameter: update['num'] /= update['denom'];
\* self.probabilities.set_(update['num'])
Discrete_apply_inplace(u) ==
    /\ head = "Discrete"
    /\ steps < MaxSteps
    /\ IF Ref(u).none
       THEN /\ last' = Call("apply", u, "", "TypeError")
            /\ UNCHANGED <<mats, probabilities>>
       ELSE IF ~Broadcastable(numOutputs)
       THEN /\ last' = Call("apply", u, "", "RuntimeError")
            /\ UNCHANGED <<mats, probabilities>>
       ELSE /\ probabilities' = Ref(u).num
            /\ mats' = Keep([mats EXCEPT ![Ref(u).num] =
                                Quotient(numOutputs, mats[Ref(u).num], vecs[Ref(u).denom])],
                            MatRoots({local, merged}))
            /\ last' = Call("apply", u, "", "")
    /\ applied' = IF last'.err = "" THEN Ref(u) ELSE applied
    /\ steps' = steps + 1
    /\ UNCHANGED <<assocVars, mcVars>>
    /\ UNCHANGED <<head, numOutputs, vecs, covariance, means, covars, local,
                   merged>>
    /\ out' = <<>>

\* apply(update), update one of the driver's records:
\* self.probabilities.set_(update['num'] / update['denom']).
\* The quotient is a new tensor and set_ makes the parameter use its storage.
Discrete_apply(u) ==
    /\ head = "Discrete"
    /\ steps < MaxSteps
    /\ IF Ref(u).none
       THEN /\ last' = Call("apply", u, "", "TypeError")
            /\ UNCHANGED <<mats, probabilities>>
       ELSE IF ~Broadcastable(numOutputs)
       THEN /\ last' = Call("apply", u, "", "RuntimeError")
            /\ UNCHANGED <<mats, probabilities>>
       ELSE LET q == NewAddr(mats)
            IN  /\ probabilities' = q
                /\ mats' = Keep(Store(mats, q, Quotient(numOutputs, mats[Ref(u).num],
                                                        vecs[Ref(u).denom])),
                                {q} \cup MatRoots({local, merged}))
                /\ last' = Call("apply", u, "", "")
    /\ applied' = IF last'.err = "" THEN Ref(u) ELSE applied
    /\ steps' = steps + 1
    /\ UNCHANGED <<assocVars, mcVars>>
    /\ UNCHANGED <<head, numOutputs, vecs, covariance, means, covars, local,
                   merged>>
    /\ out' = <<>>

AssocIdle == given = <<>> /\ results = <<>>

\* the attribute model_ before the first fit
NoModel == [exists |-> FALSE, fitted |-> FALSE, num_states |-> 0,
            initial |-> <<>>, transition |-> <<>>]

McIdle ==
    /\ est = <<>>
    /\ seqData = <<>>
    /\ model_ = NoModel
    /\ counts = <<>>
    /\ mcLast = <<>>

DiscreteInit ==
    /\ AssocIdle
    /\ McIdle
    /\ head = "Discrete"
    /\ numOutputs \in OutputSizes
    /\ probabilities = 1
    /\ \E t \in ResetTables(numOutputs) : mats = Store(<<>>, 1, t)
    /\ vecs = <<>>
    /\ covariance = ""
    /\ means = <<>>
    /\ covars = <<>>
    /\ local = NoneRec
    /\ merged = NoneRec
    /\ out = <<>>
    /\ last = Call("__init__", "", "", "")
    /\ applied = NoneRec
    /\ steps = 0

-----------------------------------------------------------------------------
(* Gaussian: one feature per observation keeps the arithmetic rational *)

NumFeatures == 1
Features == 0 .. (NumFeatures - 1)

NoneStat == [none |-> TRUE, means |-> <<>>, covars |-> <<>>]
Stat(m, c) == [none |-> FALSE, means |-> m, covars |-> c]

\* a batch: N observations and, per observation, one responsibility per
\* component; every component gets some responsibility in the batch
GaussianBatches ==
    UNION { { b \in [1 .. n -> [Features -> Samples]] \X [1 .. n -> Gammas] :
                \A k \in States : \E i \in 1 .. n : b[2][i][k] > 0 } :
            n \in 1 .. MaxBatch }

\* sum over the batch of gamma[i][k] * x[i][f] ^ p
Moment(data, gamma, k, f, p) ==
    ISum([i \in DOMAIN data |->
            gamma[i][k] * (IF p = 0 THEN 1 ELSE IF p = 1 THEN data[i][f]
                           ELSE data[i][f] * data[i][f])],
         DOMAIN data)

\* pycave.bayes.utils.max_likeli_means: the responsibility-weighted mean
max_likeli_means(data, gamma) ==
    [k \in States |-> [f \in Features |->
        Rat(Moment(data, gamma, k, f, 1), Moment(data, gamma, k, f, 0))]]

\* the weighted scatter of component k in feature f around its weighted mean
Scatter(data, gamma, k, f) ==
    LET den == Moment(data, gamma, k, f, 0)
    IN  Rat(Moment(data, gamma, k, f, 2) * den
              - Moment(data, gamma, k, f, 1) * Moment(data, gamma, k, f, 1), den)

\* pycave.bayes.utils.max_likeli_covars: the scatter reduced as the mode asks
max_likeli_covars(data, gamma, mode) ==
    LET diag == [k \in States |-> [f \in Features |->
                    RDiv(Scatter(data, gamma, k, f),
                         Num(Moment(data, gamma, k, f, 0)))]]
    IN  IF mode = "diag" THEN diag
        ELSE IF mode = "spherical"
        THEN [k \in States |-> RDiv(RSum(diag[k], Features), Num(NumFeatures))]
        ELSE [f \in Features |->
                RDiv(RSum([k \in States |-> Scatter(data, gamma, k, f)], States),
                     Num(ISum([k \in States |-> Moment(data, gamma, k, f, 0)], States)))]

\* reset_parameters(data=None): means.normal_(), covars.fill_(1)
ResetMeans == { [k \in States |-> [f \in Features |-> Num(0)]],
                [k \in States |-> [f \in Features |-> Num(k + 1)]] }

UnitCovars(mode) ==
    IF mode = "diag" THEN [k \in States |-> [f \in Features |-> Num(1)]]
    ELSE IF mode = "spherical" THEN [k \in States |-> Num(1)]
    ELSE [f \in Features |-> Num(1)]

\* Gaussian.update: the body is `pass`, the call returns None
GaussianUpdateResult(current, previous) == NoneStat

\* Gaussian.apply: the body is `pass`, the parameters stay
GaussianApplyResult(m, c, update) == <<m, c>>

GaussianFrame == UNCHANGED <<head, numOutputs, mats, vecs, probabilities, covariance>>

Gaussian_reset_parameters ==
    /\ head = "Gaussian"
    /\ steps < MaxSteps
    /\ means' \in ResetMeans
    /\ covars' = UnitCovars(covariance)
    /\ out' = <<>>
    /\ last' = Call("reset_parameters", "", "", "")
    /\ applied' = applied
    /\ steps' = steps + 1
    /\ UNCHANGED <<assocVars, mcVars>>
    /\ GaussianFrame
    /\ UNCHANGED <<local, merged>>

\* evaluate: log_normal(data, means, covars); the density itself is not
\* represented, the call reads the parameters and writes nothing
Gaussian_evaluate ==
    /\ head = "Gaussian"
    /\ steps < MaxSteps
    /\ out' = <<>>
    /\ last' = Call("evaluate", "", "", "")
    /\ applied' = applied
    /\ steps' = steps + 1
    /\ UNCHANGED <<assocVars, mcVars>>
    /\ GaussianFrame
    /\ UNCHANGED <<means, covars, local, merged>>

\* sample: one draw from MultivariateNormal(means[c], full covariance of c)
Gaussian_sample ==
    /\ head = "Gaussian"
    /\ steps < MaxSteps
    /\ \E x \in [Features -> Samples] : out' = <<x>>
    /\ last' = Call("sample", "", "", "")
    /\ applied' = applied
    /\ steps' = steps + 1
    /\ UNCHANGED <<assocVars, mcVars>>
    /\ GaussianFrame
    /\ UNCHANGED <<means, covars, local, merged>>

\* local = maximize(sequences, gamma)
Gaussian_maximize ==
    /\ head = "Gaussian"
    /\ steps < MaxSteps
    /\ \E b \in GaussianBatches :
          local' = Stat(max_likeli_means(b[1], b[2]),
                        max_likeli_covars(b[1], b[2], covariance))
    /\ out' = <<>>
    /\ last' = Call("maximize", "", "", "")
    /\ applied' = applied
    /\ steps' = steps + 1
    /\ UNCHANGED <<assocVars, mcVars>>
    /\ GaussianFrame
    /\ UNCHANGED <<means, covars, merged>>

GRef(name) == IF name = "local" THEN local
              ELSE IF name = "merged" THEN merged ELSE NoneStat

\* merged = update(local, previous), previous the folded record or None
Gaussian_update(prev) ==
    /\ head = "Gaussian"
    /\ steps < MaxSteps
    /\ ~local.none
    /\ merged' = GaussianUpdateResult(local, GRef(prev))
    /\ out' = <<>>
    /\ last' = Call("update", "local", prev, "")
    /\ applied' = applied
    /\ steps' = steps + 1
    /\ UNCHANGED <<assocVars, mcVars>>
    /\ GaussianFrame
    /\ UNCHANGED <<means, covars, local>>

\* apply(update), update one of the driver's records
Gaussian_apply(u) ==
    /\ head = "Gaussian"
    /\ steps < MaxSteps
    /\ means' = GaussianApplyResult(means, covars, GRef(u))[1]
    /\ covars' = GaussianApplyResult(means, covars, GRef(u))[2]
    /\ out' = <<>>
    /\ last' = Call("apply", u, "", "")
    /\ applied' = GRef(u)
    /\ steps' = steps + 1
    /\ UNCHANGED <<assocVars, mcVars>>
    /\ GaussianFrame
    /\ UNCHANGED <<local, merged>>

GaussianInit ==
    /\ AssocIdle
    /\ McIdle
    /\ head = "Gaussian"
    /\ numOutputs = 0
    /\ probabilities = 0
    /\ mats = <<>>
    /\ vecs = <<>>
    /\ covariance \in CovarianceModes
    /\ means \in ResetMeans
    /\ covars = UnitCovars(covariance)
    /\ local = NoneStat
    /\ merged = NoneStat
    /\ out = <<>>
    /\ last = Call("__init__", "", "", "")
    /\ applied = NoneStat
    /\ steps = 0

-----------------------------------------------------------------------------
(* The driver of one output head *)

Init == DiscreteInit \/ GaussianInit

Next ==
    \/ Discrete_reset_parameters
    \/ Discrete_evaluate
    \/ Discrete_sample
    \/ Discrete_maximize
    \/ \E cur \in {"local", "merged"}, prev \in {"local", "merged", "none"} :
          Discrete_update(cur, prev)
    \/ \E u \in {"local", "merged"} : Discrete_apply(u)
    \/ Gaussian_reset_parameters
    \/ Gaussian_evaluate
    \/ Gaussian_sample
    \/ Gaussian_maximize
    \/ \E prev \in {"merged", "none"} : Gaussian_update(prev)
    \/ \E u \in {"local", "merged"} : Gaussian_apply(u)

Spec == Init /\ [][Next]_vars

-----------------------------------------------------------------------------
(* Three records a, b, c from maximize, and the three ways of merging them *)

RecA == Rec(2, 1)
RecB == Rec(3, 2)
RecC == Rec(4, 3)
Exprs == {"update(update(a,b),c)", "update(update(b,a),c)", "update(a,update(b,c))"}

Heap(m, w) == [m |-> m, w |-> w]

\* one call of update on a heap
UpdateHeap(h, current, previous) ==
    Heap(UpdateMats(h.m, current, previous), UpdateVecs(h.w, current, previous))

\* the inner call of an expression, then the outer one, on the same heap
EvalExpr(h, e) ==
    LET ic == IF e = "update(update(a,b),c)" THEN RecA ELSE RecB
        ip == IF e = "update(update(a,b),c)" THEN RecB
              ELSE IF e = "update(update(b,a),c)" THEN RecA ELSE RecC
        h1 == UpdateHeap(h, ic, ip)
        inner == UpdateResult(ic)
        oc == IF e = "update(a,update(b,c))" THEN RecA ELSE inner
        op == IF e = "update(a,update(b,c))" THEN inner ELSE RecC
    IN  [heap |-> UpdateHeap(h1, oc, op), ret |-> UpdateResult(oc)]

ValueOf(h, r) == [num |-> h.m[r.num], denom |-> h.w[r.denom]]

\* a = maximize(..), b = maximize(..), c = maximize(..) on a fresh head
AssocInit ==
    /\ McIdle
    /\ head = "Discrete"
    /\ numOutputs = NumStates
    /\ probabilities = 1
    /\ \E ba \in Batches(numOutputs), bb \in Batches(numOutputs), bc \in Batches(numOutputs) :
          /\ mats = << [k \in States |-> [v \in Symbols(numOutputs) |-> Rat(1, numOutputs)]],
                       MaximizeNum(numOutputs, ba[1], ba[2]),
                       MaximizeNum(numOutputs, bb[1], bb[2]),
                       MaximizeNum(numOutputs, bc[1], bc[2]) >>
          /\ vecs = << MaximizeDenom(ba[2]), MaximizeDenom(bb[2]), MaximizeDenom(bc[2]) >>
    /\ given = Heap(mats, vecs)
    /\ results = <<>>
    /\ covariance = ""
    /\ means = <<>>
    /\ covars = <<>>
    /\ local = NoneRec
    /\ merged = NoneRec
    /\ out = <<>>
    /\ last = Call("maximize", "", "", "")
    /\ applied = NoneRec
    /\ steps = 0

\* evaluate one of the expressions, on the records as they are by now
AssocEval(e) ==
    /\ e \notin DOMAIN results
    /\ LET r == EvalExpr(Heap(mats, vecs), e)
       IN  /\ mats' = r.heap.m
           /\ vecs' = r.heap.w
           /\ results' = Store(results, e, ValueOf(r.heap, r.ret))
    /\ last' = Call("update", "", "", "")
    /\ UNCHANGED <<head, numOutputs, probabilities, covariance, means, covars,
                   local, merged, out, applied, steps, given>>
    /\ UNCHANGED mcVars

AssocNext == \E e \in Exprs : AssocEval(e)

SpecAssoc == AssocInit /\ [][AssocNext]_vars

-----------------------------------------------------------------------------
(* The Markov chain estimator *)

MaxState == 1
MaxSeqLen == 2
MaxSeqs == 2
MaxCalls == 2

None == [some |-> FALSE, val |-> 0]
Some(v) == [some |-> TRUE, val |-> v]
\* Python's truth value of an Optional[int]: None and 0 are false
Truthy(o) == o.some /\ o.val # 0

Ok(v) == [err |-> "", val |-> v]
Raise(e) == [err |-> e, val |-> 0]

SetMax(S) == CHOOSE x \in S : \A y \in S : y <= x

SeqsOfLen(l) == [1 .. l -> 0 .. MaxState]
\* two-dimensional arrays: up to N sequences of one length up to L
Arrays(N, L) == UNION { [1 .. n -> SeqsOfLen(l)] : n \in 1 .. N, l \in 1 .. L }
\* datasets yielding individual sequences: up to N sequences of any lengths
\* up to L
Collections(N, L) ==
    UNION { [1 .. n -> UNION {SeqsOfLen(l) : l \in 1 .. L}] : n \in 1 .. N }

Data(kind, dtype, seqs) == [kind |-> kind, dtype |-> dtype, seqs |-> seqs]

\* the example of the specification
KnownAnswer == Data("tensor", "int64", << <<0, 1, 1, 0>>, <<1, 1, 0, 0>> >>)

\* what the estimator is given: every kind of source, of integers or (one
\* sequence) not
AnyData(N, L) ==
    {Data(k, "int64", a) : k \in {"ndarray", "tensor"}, a \in Arrays(N, L)}
    \cup {Data(k, "int64", c) : k \in {"dataset", "iterable"}, c \in Collections(N, L)}
    \cup {Data(k, "float32", c) : k \in {"ndarray", "tensor", "dataset", "iterable"},
                                  c \in Arrays(1, L)}

\* hasattr(dataset, "__len__"): arrays, tensors and map-style datasets have a
\* length, an iterable (streaming) dataset has none
HasLen(d) == d.kind # "iterable"

Elements(seq) == {seq[t] : t \in DOMAIN seq}

\* _get_num_states
get_num_states(d) ==
    IF d.kind \in {"ndarray", "tensor"}
    THEN IF d.dtype # "int64" THEN Raise("AssertionError")
         ELSE Ok(SetMax(UNION {Elements(d.seqs[n]) : n \in DOMAIN d.seqs}) + 1)
    ELSE IF d.dtype # "int64" THEN Raise("AssertionError")
         ELSE Ok(SetMax({SetMax(Elements(d.seqs[n])) + 1 : n \in DOMAIN d.seqs}))

\* fit: num_states=self.num_states or _get_num_states(sequences)
ConfigNumStates(e, d) ==
    IF Truthy(e.num_states) THEN Ok(e.num_states.val) ELSE get_num_states(d)

\* _get_data_loader: the assertion, then batch_size=self.batch_size or len(dataset)
get_data_loader(e, d) ==
    IF ~(e.batch_size.some \/ HasLen(d)) THEN Raise("AssertionError")
    ELSE IF Truthy(e.batch_size) THEN Ok(e.batch_size.val)
    ELSE IF HasLen(d) THEN Ok(Len(d.seqs))
    ELSE Raise("TypeError")

\* A loader that drops a trailing batch shorter than the batch size
\* (drop_last=True)
LoaderBatchesDropLast(seqs, b) ==
    [i \in 1 .. (Len(seqs) \div b) |-> SubSeq(seqs, (i - 1) * b + 1, i * b)]

\* DataLoader(dataset, batch_size=b): consecutive chunks of b sequences, the
\* last one shorter when b does not divide the length
LoaderBatches(seqs, b) ==
    [i \in 1 .. ((Len(seqs) + b - 1) \div b) |->
        SubSeq(seqs, (i - 1) * b + 1, IF i * b < Len(seqs) THEN i * b ELSE Len(seqs))]

\* A fit that never asks for a symmetric chain
FitSymmetricDropped(e) == FALSE

\* fit: MarkovChainLightningModule(self.model_, self.symmetric)
FitSymmetric(e) == e.symmetric

\* the accumulator of one batch: first states, and consecutive pairs inside
\* each sequence (both ways round when symmetric)
\* the consecutive pairs (i, j) inside one sequence
SeqPairs(seq, i, j) ==
    Cardinality({t \in 1 .. (Len(seq) - 1) : seq[t] = i /\ seq[t + 1] = j})

BatchCounts(K, batch, symmetric) ==
    LET pairs(i, j) == ISum([n \in DOMAIN batch |-> SeqPairs(batch[n], i, j)], DOMAIN batch)
    IN  [initial |-> [i \in 0 .. (K - 1) |->
                        Cardinality({n \in DOMAIN batch : batch[n][1] = i})],
         transition |-> [i \in 0 .. (K - 1) |-> [j \in 0 .. (K - 1) |->
                        pairs(i, j) + (IF symmetric THEN pairs(j, i) ELSE 0)]]]

AddCounts(a, b) ==
    [initial |-> [i \in DOMAIN a.initial |-> a.initial[i] + b.initial[i]],
     transition |-> [i \in DOMAIN a.transition |-> [j \in DOMAIN a.transition[i] |->
                        a.transition[i][j] + b.transition[i][j]]]]

ZeroCounts(K) ==
    [initial |-> [i \in 0 .. (K - 1) |-> 0],
     transition |-> [i \in 0 .. (K - 1) |-> [j \in 0 .. (K - 1) |-> 0]]]

\* the fold over the batches, in the order the loader yields them
RECURSIVE FoldCounts(_, _, _, _)
FoldCounts(K, batches, symmetric, n) ==
    IF n = 0 THEN ZeroCounts(K)
    ELSE AddCounts(FoldCounts(K, batches, symmetric, n - 1),
                   BatchCounts(K, batches[n], symmetric))

\* the commit: each row over its sum (a row without counts falls back to the
\* uniform row), the initial counts over their total
Normalized(K, c) ==
    [exists |-> TRUE, fitted |-> TRUE, num_states |-> K,
     initial |-> [i \in 0 .. (K - 1) |-> Rat(c.initial[i], ISum(c.initial, 0 .. (K - 1)))],
     transition |-> [i \in 0 .. (K - 1) |->
        LET total == ISum(c.transition[i], 0 .. (K - 1))
        IN  [j \in 0 .. (K - 1) |->
                IF total = 0 THEN Rat(1, K) ELSE Rat(c.transition[i][j], total)]]]

\* trainer.fit(module, loader): a sequence that is not of integers, or a state
\* outside 0 .. K-1, is fatal; otherwise count, fold and commit
Train(K, d, b, symmetric) ==
    IF d.dtype # "int64" THEN Raise("TypeError")
    ELSE IF \E n \in DOMAIN d.seqs : \E x \in Elements(d.seqs[n]) : x >= K
    THEN Raise("IndexError")
    ELSE LET batches == LoaderBatches(d.seqs, b)
         IN  Ok(FoldCounts(K, batches, symmetric, Len(batches)))

McCall(op, d, b, err) ==
    [op |-> op, haslen |-> HasLen(d), len |-> Len(d.seqs), batch_size |-> b,
     err |-> err, calls |-> IF mcLast = <<>> THEN 1 ELSE mcLast.calls + 1]

CallsMade == IF mcLast = <<>> THEN 0 ELSE mcLast.calls

HeadsIdle ==
    /\ head = ""
    /\ numOutputs = 0
    /\ probabilities = 0
    /\ mats = <<>>
    /\ vecs = <<>>
    /\ covariance = ""
    /\ means = <<>>
    /\ covars = <<>>
    /\ local = NoneRec
    /\ merged = NoneRec
    /\ out = <<>>
    /\ last = Call("", "", "", "")
    /\ applied = NoneRec
    /\ steps = 0

\* fit(sequences)
MC_fit(d) ==
    /\ est # <<>>
    /\ CallsMade < MaxCalls
    /\ seqData' = d
    /\ LET k == ConfigNumStates(est, d)
           l == get_data_loader(est, d)
           fresh == [exists |-> TRUE, fitted |-> FALSE, num_states |-> k.val,
                     initial |-> <<>>, transition |-> <<>>]
           t == Train(k.val, d, l.val, FitSymmetric(est))
       IN  IF k.err # ""
           THEN /\ mcLast' = McCall("fit", d, 0, k.err)
                /\ UNCHANGED <<model_, counts>>
           ELSE IF l.err # ""
           THEN /\ mcLast' = McCall("fit", d, 0, l.err)
                /\ model_' = fresh
                /\ UNCHANGED counts
           ELSE IF t.err # ""
           THEN /\ mcLast' = McCall("fit", d, l.val, t.err)
                /\ model_' = fresh
                /\ UNCHANGED counts
           ELSE /\ mcLast' = McCall("fit", d, l.val, "")
                /\ model_' = Normalized(k.val, t.val)
                /\ counts' = t.val
    /\ UNCHANGED <<est, headVars, assocVars>>

\* score(sequences): the module wraps self.model_, the loader is built, the
\* trainer tests over it.  The log-probabilities are not represented.
MC_score(d) ==
    /\ est # <<>>
    /\ CallsMade < MaxCalls
    /\ LET l == get_data_loader(est, d)
       IN  mcLast' = IF ~model_.exists THEN McCall("score", d, 0, "AttributeError")
                     ELSE McCall("score", d, l.val, l.err)
    /\ UNCHANGED <<est, seqData, model_, counts, headVars, assocVars>>

\* score_samples(sequences): as score, the trainer predicts
MC_score_samples(d) ==
    /\ est # <<>>
    /\ CallsMade < MaxCalls
    /\ LET l == get_data_loader(est, d)
       IN  mcLast' = IF ~model_.exists THEN McCall("score_samples", d, 0, "AttributeError")
                     ELSE McCall("score_samples", d, l.val, l.err)
    /\ UNCHANGED <<est, seqData, model_, counts, headVars, assocVars>>

Estimators(numStates, batchSizes) ==
    [num_states : numStates, symmetric : BOOLEAN, batch_size : batchSizes]

McInit(E) ==
    /\ HeadsIdle
    /\ AssocIdle
    /\ est \in E
    /\ seqData = <<>>
    /\ model_ = NoModel
    /\ counts = <<>>
    /\ mcLast = <<>>

\* the estimator under every configuration and every kind of source
InitMC ==
    McInit(Estimators({None} \cup {Some(v) : v \in 0 .. (MaxState + 2)},
                      {None} \cup {Some(v) : v \in 0 .. MaxSeqs}))

\* what scoring reads of its source: whether it has a length, and the length
Sources == {Data(k, "int64", c) : k \in {"dataset", "iterable"},
                                  c \in {[i \in 1 .. n |-> <<0>>] : n \in 1 .. MaxSeqs}}

NextMC ==
    \/ \E d \in AnyData(MaxSeqs, MaxSeqLen) : MC_fit(d)
    \/ \E d \in Sources : MC_score(d)
    \/ \E d \in Sources : MC_score_samples(d)

SpecMC == InitMC /\ [][NextMC]_vars

\* one fit of integer tensors, by an estimator told the number of states or not
InitFit ==
    McInit(Estimators({None, Some(MaxState + 2)}, {None, Some(1), Some(2)}))

NextFit ==
    /\ CallsMade = 0
    /\ \/ \E a \in Arrays(MaxSeqs, MaxSeqLen) : MC_fit(Data("tensor", "int64", a))
       \/ MC_fit(KnownAnswer)

SpecFit == InitFit /\ [][NextFit]_vars

-----------------------------------------------------------------------------
(* Properties of the output heads *)

\* the committed parameters of the head under the driver
Params == IF head = "Discrete" THEN mats[probabilities] ELSE <<means, covars>>

RowSum(row) == RSum(row, DOMAIN row)

\* C2: degenerate-state guard.  When apply commits statistics whose
\* denominator is 0 for state k, row k of the table keeps the value it had
\* before the call and holds no NaN/Inf, and every other row becomes
\* numerator / denominator of that row.
DegenerateStateGuard ==
    [][ (head = "Discrete" /\ last'.op = "apply" /\ last'.err = "")
        => LET num == mats[Ref(last'.cur).num]
               denom == vecs[Ref(last'.cur).denom]
           IN  \A k \in States :
                  IF denom[k] = Num(0)
                  THEN /\ Params'[k] = Params[k]
                       /\ \A v \in DOMAIN Params'[k] : IsFinite(Params'[k][v])
                  ELSE Params'[k] = [v \in DOMAIN num[k] |-> RDiv(num[k][v], denom[k])]
      ]_vars

\* C3: row-stochasticity.  After per-batch records were folded with update and
\* the folded record was passed to apply, every row of the table whose total
\* responsibility is positive has finite entries that sum to 1.
RowStochasticAfterApply ==
    (head = "Discrete" /\ last.op = "apply" /\ last.cur = "merged" /\ ~merged.none)
    => \A k \in States :
          vecs[merged.denom][k] # Num(0)
          => /\ \A v \in DOMAIN Params[k] : IsFinite(Params[k][v])
             /\ RowSum(Params[k]) = Num(1)

\* C4: Gaussian commit.  update returns a statistics record (the current one
\* when previous is None), and after apply of the folded record the means and
\* covariances are the maximum-likelihood values that record holds.
GaussianCommit ==
    head = "Gaussian"
    => /\ last.op = "update"
          => /\ ~merged.none
             /\ last.prev = "none" => merged = local
       /\ (last.op = "apply" /\ last.cur = "merged" /\ ~local.none)
          => /\ ~merged.none
             /\ means = merged.means
             /\ covars = merged.covars

\* C9: evaluate, sample, maximize and update leave the committed parameters of
\* the head (the probability table, or the means and covariances) as they
\* were; in particular an update that changes a record does not change the
\* parameters an earlier apply committed from that record.
OnlyApplyMutatesParameters ==
    [][ last'.op \in {"evaluate", "sample", "maximize", "update"}
        => Params' = Params ]_vars

\* C9 happens: apply committed the table from `local`, and update(local, local)
\* then doubled that record's non-zero counts in place
RecordChangedAfterApply ==
    /\ head = "Discrete"
    /\ last = Call("update", "local", "local", "")
    /\ ~applied.none
    /\ applied.num = local.num
    /\ \E k \in States : vecs[local.denom][k] # Num(0)

\* C10: update is a pure merge.  A call update(current, previous) with a
\* previous record leaves the num and denom of both arguments as they were,
\* and the record it returns shares no tensor with either argument.
UpdateIsPure ==
    [][ (head = "Discrete" /\ last'.op = "update" /\ ~Ref(last'.prev).none)
        => LET c == Ref(last'.cur)
               p == Ref(last'.prev)
           IN  /\ mats'[c.num] = mats[c.num]
               /\ vecs'[c.denom] = vecs[c.denom]
               /\ p.num \in DOMAIN mats' => mats'[p.num] = mats[p.num]
               /\ p.denom \in DOMAIN vecs' => vecs'[p.denom] = vecs[p.denom]
               /\ merged'.num \notin {c.num, p.num}
               /\ merged'.denom \notin {c.denom, p.denom}
      ]_vars

\* C1: the three merges of three records a, b, c from maximize, evaluated one
\* after another on the same records, each return the elementwise sum a+b+c
\* of the numerators and of the denominators.
MergeIsAssociativeCommutative ==
    \A e \in DOMAIN results :
        results[e] = [num |-> MAdd(MAdd(given.m[RecA.num], given.m[RecB.num]),
                                   given.m[RecC.num]),
                      denom |-> VAdd(VAdd(given.w[RecA.denom], given.w[RecB.denom]),
                                     given.w[RecC.denom])]

-----------------------------------------------------------------------------
(* Properties of the Markov chain estimator *)

FitSucceeded == mcLast # <<>> /\ mcLast.op = "fit" /\ mcLast.err = ""

\* the positions of the data set that have a successor in their own sequence
\* and hold state i
Positions(seqs, i) ==
    {p \in (DOMAIN seqs) \X (1 .. SetMax({Len(seqs[n]) : n \in DOMAIN seqs})) :
        p[2] < Len(seqs[p[1]]) /\ seqs[p[1]][p[2]] = i}

Half == Rat(1, 2)

\* C5: after a fit that is not symmetric, the initial probability of state i
\* is the share of the sequences that start in i, and row i of the transition
\* matrix, when state i has a successor somewhere, is the share of each
\* successor among the positions holding i that have a successor in their own
\* sequence; [[0,1,1,0],[1,1,0,0]] over 2 states gives halves throughout.
FitCountsAndNormalizes ==
    (FitSucceeded /\ ~est.symmetric) =>
        LET seqs == seqData.seqs
            K == model_.num_states
        IN  /\ model_.fitted
            /\ \A i \in 0 .. (K - 1) :
                 /\ model_.initial[i] =
                        Rat(Cardinality({n \in DOMAIN seqs : seqs[n][1] = i}), Len(seqs))
                 /\ Positions(seqs, i) # {} =>
                        \A j \in 0 .. (K - 1) :
                            model_.transition[i][j] =
                                Rat(Cardinality({p \in Positions(seqs, i) :
                                                    seqs[p[1]][p[2] + 1] = j}),
                                    Cardinality(Positions(seqs, i)))
            /\ (seqData = KnownAnswer /\ K = 2) =>
                 /\ model_.initial = [i \in 0 .. 1 |-> Half]
                 /\ model_.transition = [i \in 0 .. 1 |-> [j \in 0 .. 1 |-> Half]]

\* the example fitted in batches of one sequence, the number of states inferred
KnownAnswerFitted ==
    /\ FitSucceeded
    /\ ~est.symmetric
    /\ seqData = KnownAnswer
    /\ ~est.num_states.some
    /\ mcLast.batch_size = 1
    /\ model_.transition[1][0] = Half

\* C6 as stated: after a symmetric fit the committed transition matrix equals
\* its own transpose.
SymmetricTransitionIsOwnTranspose ==
    (FitSucceeded /\ est.symmetric) =>
        \A i, j \in 0 .. (model_.num_states - 1) :
            model_.transition[i][j] = model_.transition[j][i]

\* C6: after a symmetric fit the merged transition counts equal their own
\* transpose, and the committed matrix is reversible with respect to the row
\* sums r of the counts: r[i] * transition[i][j] = r[j] * transition[j][i].
SymmetricCountsReversible ==
    (FitSucceeded /\ est.symmetric) =>
        LET Ks == 0 .. (model_.num_states - 1)
            r == [i \in Ks |-> ISum(counts.transition[i], Ks)]
        IN  \A i, j \in Ks :
                /\ counts.transition[i][j] = counts.transition[j][i]
                /\ RMul(Num(r[i]), model_.transition[i][j])
                       = RMul(Num(r[j]), model_.transition[j][i])

\* the example fitted symmetrically: rows [2/5, 3/5] and [3/7, 4/7]
SymmetricKnownAnswerFitted ==
    /\ FitSucceeded
    /\ est.symmetric
    /\ seqData = KnownAnswer
    /\ model_.num_states = 2
    /\ model_.transition[0][1] = Rat(3, 5)
    /\ model_.transition[1][0] = Rat(3, 7)

\* the call got as far as building its loader
ReachedLoader ==
    /\ mcLast # <<>>
    /\ IF mcLast.op = "fit" THEN ConfigNumStates(est, seqData).err = ""
       ELSE mcLast.err # "AttributeError"

\* C7: a call that builds its loader uses the whole data set as one batch
\* when batch_size is unset and the source has a length, uses batch_size
\* when it is given (0 included), and fails with the assertion when
\* batch_size is unset and the source has no length.
BatchSupplierConfiguration ==
    ReachedLoader =>
        /\ (~est.batch_size.some /\ mcLast.haslen) => mcLast.batch_size = mcLast.len
        /\ est.batch_size.some =>
              /\ mcLast.batch_size = est.batch_size.val
              /\ mcLast.err \notin {"AssertionError"}
        /\ (~est.batch_size.some /\ ~mcLast.haslen) => mcLast.err = "AssertionError"

\* C8: a fit that succeeds has K = num_states when num_states was given to
\* the constructor (0 included) and K = the largest state of all sequences
\* + 1 when it was not; a fit of data that are not integers fails on the
\* integer-type assertion.
NumStatesInference ==
    (mcLast # <<>> /\ mcLast.op = "fit") =>
        /\ (mcLast.err = "" /\ est.num_states.some) =>
              model_.num_states = est.num_states.val
        /\ (mcLast.err = "" /\ ~est.num_states.some) =>
              model_.num_states =
                  SetMax(UNION {Elements(seqData.seqs[n]) : n \in DOMAIN seqData.seqs}) + 1
        /\ seqData.dtype # "int64" => mcLast.err = "AssertionError"

=============================================================================
